---- MODULE Spec2Model ----
(***************************************************************************)
(* The tic-tac-toe Game component of src/src/index.tsx: its state          *)
(* (history, step, xIsNext), its two handlers handleClick and jumpTo, the  *)
(* pure functions calculateWinner and calculateCoordinate, and the wiring  *)
(* of the rendered buttons to the handlers.                                *)
(***************************************************************************)
EXTENDS Integers, Sequences, FiniteSets, TLC

VARIABLES
    history,   \* state.history: sequence of [squares, coords]; entry m is history[m + 1]
    step,      \* state.step
    xIsNext,   \* state.xIsNext
    event,     \* the last user click the rendered page received
    call       \* a direct call of a pure function: its argument and its result

vars == <<history, step, xIsNext, event, call>>

----------------------------------------------------------------------------
(* Bounds *)

\* A move is offered from steps below MaxMoves only: histories hold at most
\* MaxMoves + 1 entries.
MaxMoves == 5

\* jumpTo arguments tried beyond the ends of history, on either side.
MaxOutOfRange == 2

\* calculateCoordinate is called on the cell numbers and on the MaxBeyond
\* integers below 0 and above 8.
MaxBeyond == 50

----------------------------------------------------------------------------
(* Values *)

BOARD_SIZE == 3

numbers == <<0, 1, 2>>

\* The cell numbers the board renders a Square for: row * BOARD_SIZE + col.
Cells == { (row - 1) * BOARD_SIZE + (col - 1) : row \in DOMAIN numbers, col \in DOMAIN numbers }

Empty == ""

Null == "null"

\* calculateCoordinate's result for a key its map lacks, and the coords of the
\* initial history entry, which has none.
Undefined == <<>>

Marks == {Empty, "X", "O"}

Boards == [Cells -> Marks]

\* Array<string>(9).fill('')
EmptySquares == [c \in Cells |-> Empty]

----------------------------------------------------------------------------
(* Pure functions *)

lines == << <<0, 1, 2>>, <<3, 4, 5>>, <<6, 7, 8>>,
            <<0, 3, 6>>, <<1, 4, 7>>, <<2, 5, 8>>,
            <<0, 4, 8>>, <<2, 4, 6>> >>

\* lineComplete with the third cell left out of the comparison.
lineComplete_twoCells(squares, line) ==
    /\ squares[line[1]] # Empty
    /\ squares[line[1]] = squares[line[2]]

\* squares[a] && squares[a] === squares[b] && squares[a] === squares[c]
lineComplete(squares, line) ==
    /\ squares[line[1]] # Empty
    /\ squares[line[1]] = squares[line[2]]
    /\ squares[line[1]] = squares[line[3]]

\* The for loop over lines, unrolled: the first complete line returns its mark.
calculateWinner(squares) ==
    IF lineComplete(squares, lines[1]) THEN squares[lines[1][1]] ELSE
    IF lineComplete(squares, lines[2]) THEN squares[lines[2][1]] ELSE
    IF lineComplete(squares, lines[3]) THEN squares[lines[3][1]] ELSE
    IF lineComplete(squares, lines[4]) THEN squares[lines[4][1]] ELSE
    IF lineComplete(squares, lines[5]) THEN squares[lines[5][1]] ELSE
    IF lineComplete(squares, lines[6]) THEN squares[lines[6][1]] ELSE
    IF lineComplete(squares, lines[7]) THEN squares[lines[7][1]] ELSE
    IF lineComplete(squares, lines[8]) THEN squares[lines[8][1]] ELSE
    Null

coordinateMap ==
    [i \in 0..8 |->
        CASE i = 0 -> <<1, 1>> [] i = 1 -> <<2, 1>> [] i = 2 -> <<3, 1>>
          [] i = 3 -> <<1, 2>> [] i = 4 -> <<2, 2>> [] i = 5 -> <<3, 2>>
          [] i = 6 -> <<1, 3>> [] i = 7 -> <<2, 3>> [] i = 8 -> <<3, 3>>]

\* calculateCoordinate with row and column exchanged.
calculateCoordinate_swapped(i) ==
    IF i \in DOMAIN coordinateMap THEN <<coordinateMap[i][2], coordinateMap[i][1]>> ELSE Undefined

calculateCoordinate(i) ==
    IF i \in DOMAIN coordinateMap THEN coordinateMap[i] ELSE Undefined

\* Array.prototype.slice(0, end): a negative end counts from the back.
slice0(arr, end) ==
    LET e == IF end < 0 THEN (IF Len(arr) + end < 0 THEN 0 ELSE Len(arr) + end)
             ELSE (IF end > Len(arr) THEN Len(arr) ELSE end)
    IN SubSeq(arr, 1, e)

\* JavaScript's %: the result takes the sign of the dividend.
jsRem(a, b) == IF a >= 0 THEN a % b ELSE -((-a) % b)

----------------------------------------------------------------------------
(* The Game component *)

NoEvent == [target |-> "none", arg |-> 0]

NoCall == [fn |-> "none", arg |-> 0, ret |-> "none"]

\* Game.state as constructed
initialState ==
    [history |-> << [squares |-> EmptySquares, coords |-> Undefined] >>,
     step |-> 0,
     xIsNext |-> TRUE]

\* this.state
State == [history |-> history, step |-> step, xIsNext |-> xIsNext]

\* this.setState(s), s being the state with the new fields merged in
setState(s) ==
    /\ history' = s.history
    /\ step' = s.step
    /\ xIsNext' = s.xIsNext

\* history[s.step] exists
stepInRange(s) == s.step \in 0..(Len(s.history) - 1)

\* render: current = history[this.state.step]; the board shows current.squares
currentBoard(s) == s.history[s.step + 1].squares

\* render: winner = calculateWinner(current.squares)
winner(s) == calculateWinner(currentBoard(s))

\* render: nextPlayer
nextPlayer(s) == IF s.xIsNext THEN "X" ELSE "O"

\* render: status, as the pieces the + joins
status(s) ==
    IF winner(s) # Null THEN <<"Winner is ", winner(s), "!">>
    ELSE <<"Next Player is ", nextPlayer(s)>>

\* render: description of entry move, as the pieces the + joins;
\* it.coords!.join throws a TypeError when the entry has no coords
description(s, move) ==
    IF move # 0
    THEN IF s.history[move + 1].coords = Undefined
         THEN <<"TypeError">>
         ELSE <<"Go to move #", move, " at (",
                s.history[move + 1].coords[1], ", ", s.history[move + 1].coords[2], ")">>
    ELSE <<"Go to start">>

\* returnsEarly without the test of the clicked cell.
returnsEarly_winnerOnly(squares, i) == calculateWinner(squares) # Null

\* returnsEarly without the test for a winner.
returnsEarly_occupiedOnly(squares, i) == squares[i] # Empty

\* handleClick's early return: calculateWinner(squares) || squares[i]
returnsEarly(squares, i) == calculateWinner(squares) # Null \/ squares[i] # Empty

\* handleClick appending to the whole history instead of the slice up to step.
handleClick_noSlice(s, i) ==
    LET hist == s.history IN
    IF ~(s.step \in 0..(Len(hist) - 1))
    THEN s
    ELSE LET current == hist[s.step + 1]
             squares == current.squares
         IN IF returnsEarly(squares, i)
            THEN s
            ELSE [history |-> Append(hist,
                        [squares |-> [squares EXCEPT ![i] = IF s.xIsNext THEN "X" ELSE "O"],
                         coords |-> calculateCoordinate(i)]),
                  step |-> Len(hist),
                  xIsNext |-> ~s.xIsNext]

\* handleClick leaving step where it was.
handleClick_sameStep(s, i) ==
    LET hist == slice0(s.history, s.step + 1) IN
    IF ~(s.step \in 0..(Len(hist) - 1))
    THEN s
    ELSE LET current == hist[s.step + 1]
             squares == current.squares
         IN IF returnsEarly(squares, i)
            THEN s
            ELSE [history |-> Append(hist,
                        [squares |-> [squares EXCEPT ![i] = IF s.xIsNext THEN "X" ELSE "O"],
                         coords |-> calculateCoordinate(i)]),
                  step |-> s.step,
                  xIsNext |-> ~s.xIsNext]

\* handleClick taking step from the length of the unsliced history.
handleClick_staleLength(s, i) ==
    LET hist == slice0(s.history, s.step + 1) IN
    IF ~(s.step \in 0..(Len(hist) - 1))
    THEN s
    ELSE LET current == hist[s.step + 1]
             squares == current.squares
         IN IF returnsEarly(squares, i)
            THEN s
            ELSE [history |-> Append(hist,
                        [squares |-> [squares EXCEPT ![i] = IF s.xIsNext THEN "X" ELSE "O"],
                         coords |-> calculateCoordinate(i)]),
                  step |-> Len(s.history),
                  xIsNext |-> ~s.xIsNext]

\* handleClick writing into current.squares itself instead of a copy of it.
handleClick_mutatesCurrent(s, i) ==
    LET hist == slice0(s.history, s.step + 1) IN
    IF ~(s.step \in 0..(Len(hist) - 1))
    THEN s
    ELSE LET current == hist[s.step + 1]
             squares == current.squares
             marked == [squares EXCEPT ![i] = IF s.xIsNext THEN "X" ELSE "O"]
         IN IF returnsEarly(squares, i)
            THEN s
            ELSE [history |-> Append([hist EXCEPT ![s.step + 1].squares = marked],
                        [squares |-> marked, coords |-> calculateCoordinate(i)]),
                  step |-> Len(hist),
                  xIsNext |-> ~s.xIsNext]

\* handleClick appending the entry without coords.
handleClick_noCoords(s, i) ==
    LET hist == slice0(s.history, s.step + 1) IN
    IF ~(s.step \in 0..(Len(hist) - 1))
    THEN s
    ELSE LET current == hist[s.step + 1]
             squares == current.squares
         IN IF returnsEarly(squares, i)
            THEN s
            ELSE [history |-> Append(hist,
                        [squares |-> [squares EXCEPT ![i] = IF s.xIsNext THEN "X" ELSE "O"],
                         coords |-> Undefined]),
                  step |-> Len(hist),
                  xIsNext |-> ~s.xIsNext]

\* The state handleClick(i) leaves when it runs in state s.
handleClick(s, i) ==
    LET hist == slice0(s.history, s.step + 1) IN
    IF ~(s.step \in 0..(Len(hist) - 1))
    THEN s  \* current is undefined: current.squares throws a TypeError
    ELSE LET current == hist[s.step + 1]
             squares == current.squares
         IN IF returnsEarly(squares, i)
            THEN s
            ELSE [history |-> Append(hist,
                        [squares |-> [squares EXCEPT ![i] = IF s.xIsNext THEN "X" ELSE "O"],
                         coords |-> calculateCoordinate(i)]),
                  step |-> Len(hist),
                  xIsNext |-> ~s.xIsNext]

\* jumpTo leaving xIsNext as it was.
jumpTo_keepsFlag(s, move) == [s EXCEPT !.step = move]

\* jumpTo dropping the entries after move.
jumpTo_truncates(s, move) ==
    [s EXCEPT !.history = slice0(s.history, move + 1),
              !.step = move,
              !.xIsNext = (jsRem(move, 2) = 0)]

\* The state jumpTo(move) leaves when it runs in state s.
jumpTo(s, move) ==
    [s EXCEPT !.step = move, !.xIsNext = (jsRem(move, 2) = 0)]

Init ==
    /\ history = initialState.history
    /\ step = initialState.step
    /\ xIsNext = initialState.xIsNext
    /\ event = NoEvent
    /\ call = NoCall

----------------------------------------------------------------------------
(* Calls of the two handlers, jumpTo being given the index of a history entry *)

\* handleClick(i) goes past its early return in state s
moveApplies(s, i) ==
    /\ stepInRange(s)
    /\ ~returnsEarly(currentBoard(s), i)

\* A click is offered when it plays no move, or plays one from below MaxMoves.
withinBound(i) == step < MaxMoves \/ ~moveApplies(State, i)

ApplyMove ==
    \E i \in Cells :
        /\ withinBound(i)
        /\ setState(handleClick(State, i))
        /\ UNCHANGED <<event, call>>

JumpInRange ==
    \E k \in 0..(Len(history) - 1) :
        /\ setState(jumpTo(State, k))
        /\ UNCHANGED <<event, call>>

Next == ApplyMove \/ JumpInRange

Spec == Init /\ [][Next]_vars

----------------------------------------------------------------------------
(* Valid moves only: every call of handleClick goes past its early return *)

ValidMove ==
    \E i \in Cells :
        /\ moveApplies(State, i)
        /\ setState(handleClick(State, i))
        /\ UNCHANGED <<event, call>>

NextMoves == ValidMove

SpecMoves == Init /\ [][NextMoves]_vars

----------------------------------------------------------------------------
(* The two handlers with jumpTo given any integer near the ends of history *)

JumpArgs == (0 - MaxOutOfRange)..(Len(history) - 1 + MaxOutOfRange)

JumpAny ==
    \E move \in JumpArgs :
        /\ setState(jumpTo(State, move))
        /\ UNCHANGED <<event, call>>

NextRaw == ApplyMove \/ JumpAny

SpecRaw == Init /\ [][NextRaw]_vars

----------------------------------------------------------------------------
(* The rendered page of src/src/index.tsx: what a click on each button does *)

\* Board: <Square onClick={() => props.onClick(i)} />, onClick being handleClick
SquareClick ==
    \E i \in Cells :
        /\ withinBound(i)
        /\ setState(handleClick(State, i))
        /\ event' = [target |-> "square", arg |-> i]
        /\ UNCHANGED call

\* History: the button of entry m has onMouseOver and onMouseLeave and no
\* onClick, so a click on it reaches no handler of Game.
HistoryClick ==
    \E m \in 0..(Len(history) - 1) :
        /\ event' = [target |-> "history", arg |-> m]
        /\ UNCHANGED <<history, step, xIsNext, call>>

NextUI == SquareClick \/ HistoryClick

SpecUI == Init /\ [][NextUI]_vars

----------------------------------------------------------------------------
(* calculateWinner called on any board *)

InitWinner ==
    /\ history = initialState.history
    /\ step = initialState.step
    /\ xIsNext = initialState.xIsNext
    /\ event = NoEvent
    /\ call \in { [fn |-> "calculateWinner", arg |-> b, ret |-> "pending"] : b \in Boards }

CallCalculateWinner ==
    /\ call.fn = "calculateWinner"
    /\ call.ret = "pending"
    /\ call' = [call EXCEPT !.ret = calculateWinner(call.arg)]
    /\ UNCHANGED <<history, step, xIsNext, event>>

NextWinner == CallCalculateWinner

SpecWinner == InitWinner /\ [][NextWinner]_vars

----------------------------------------------------------------------------
(* calculateCoordinate called on any integer from -MaxBeyond to 8 + MaxBeyond *)

InitCoordinate ==
    /\ history = initialState.history
    /\ step = initialState.step
    /\ xIsNext = initialState.xIsNext
    /\ event = NoEvent
    /\ call \in { [fn |-> "calculateCoordinate", arg |-> i, ret |-> Undefined, done |-> FALSE] :
                    i \in (0 - MaxBeyond)..(8 + MaxBeyond) }

CallCalculateCoordinate ==
    /\ call.fn = "calculateCoordinate"
    /\ ~call.done
    /\ call' = [call EXCEPT !.ret = calculateCoordinate(call.arg), !.done = TRUE]
    /\ UNCHANGED <<history, step, xIsNext, event>>

NextCoordinate == CallCalculateCoordinate

SpecCoordinate == InitCoordinate /\ [][NextCoordinate]_vars

----------------------------------------------------------------------------
(* Claims *)

\* The entry handleClick(i) appends when it plays cell i on board k of history.
entryOfMove(k, i) ==
    [squares |-> [history[k + 1].squares EXCEPT ![i] = IF k % 2 = 0 THEN "X" ELSE "O"],
     coords |-> calculateCoordinate(i)]

\* C1: in every state reached by handleClick and in-range jumpTo calls, the
\* stored flag agrees with the parity of step: the next player is X exactly
\* when step is even.
C1_FlagAgreesWithParity ==
    /\ xIsNext <=> (step % 2 = 0)
    /\ (nextPlayer(State) = "X") <=> (step % 2 = 0)

\* C1 witness: a jump back to an odd step, with later entries still stored,
\* has left O as the next player.
C1_Witness ==
    /\ step < Len(history) - 1
    /\ step % 2 = 1
    /\ nextPlayer(State) = "O"

\* C2: in every reachable state, handleClick(i) on a cell that is marked on
\* the current board changes nothing: history (the entries after step
\* included), step and xIsNext stay as they are.
C2_OccupiedClickIsNoOp ==
    \A i \in Cells :
        currentBoard(State)[i] # Empty => handleClick(State, i) = State

\* C2 witness: a board without a winner, with entries stored after it, on
\* which the click on a marked cell has left those entries in place.
C2_Witness ==
    /\ step < Len(history) - 1
    /\ winner(State) = Null
    /\ \E i \in Cells :
        /\ currentBoard(State)[i] # Empty
        /\ Len(handleClick(State, i).history) = Len(history)

\* C3: in every reachable state whose current board has a winning line,
\* handleClick(i) changes nothing for every cell i, marked or not.
C3_ClickAfterWinIsNoOp ==
    winner(State) # Null => \A i \in Cells : handleClick(State, i) = State

\* C3 witness: a won board with an Empty cell, the click on which is ignored.
C3_Witness ==
    /\ winner(State) # Null
    /\ \E i \in Cells :
        /\ currentBoard(State)[i] = Empty
        /\ handleClick(State, i).step = step

\* C4 as stated, on the state jumpTo(k) has left (step is k, and the jumps of
\* Spec reach that state from every state with the same history): for every
\* cell i, a following handleClick(i) leaves a history of k + 2 entries, the
\* entries up to k and the entry of the new move.
C4_TruncationForEveryCell ==
    \A i \in Cells :
        LET k == step
            after == handleClick(jumpTo(State, k), i)
        IN /\ Len(after.history) = k + 2
           /\ after.history = Append(SubSeq(history, 1, k + 1), entryOfMove(k, i))

\* C4 as amended, on the state jumpTo(k) has left: for every cell i that is
\* Empty on board k, board k having no winner, a following handleClick(i)
\* leaves a history of k + 2 entries, the entries up to k and the entry of the
\* new move, so that every entry that was stored after k is gone.
C4_TruncationForValidMove ==
    \A i \in Cells :
        LET k == step
            after == handleClick(jumpTo(State, k), i)
        IN (calculateWinner(history[k + 1].squares) = Null /\ history[k + 1].squares[i] = Empty)
           => /\ Len(after.history) = k + 2
              /\ after.history = Append(SubSeq(history, 1, k + 1), entryOfMove(k, i))
              /\ after.step = k + 1

\* C4 witness: a jump has left step two or more entries before the end of
\* history, on a board where a move can be played; the move discards them.
C4_Witness ==
    /\ Len(history) >= step + 3
    /\ \E i \in Cells :
        /\ moveApplies(jumpTo(State, step), i)
        /\ Len(handleClick(jumpTo(State, step), i).history) = step + 2

\* C5: when only valid moves are played from the initial state, after each
\* call history has step + 1 entries, and the next valid move adds exactly
\* one entry and again leaves step on the last one.
C5_StepOnLastEntry ==
    /\ Len(history) = step + 1
    /\ \A i \in Cells :
        moveApplies(State, i) =>
            /\ Len(handleClick(State, i).history) = Len(history) + 1
            /\ handleClick(State, i).step + 1 = Len(handleClick(State, i).history)

\* C5 witness: nine valid moves have filled the board.
C5_Witness ==
    /\ step = 9
    /\ Len(history) = 10
    /\ \A i \in Cells : currentBoard(State)[i] # Empty

\* C6: for every index k of a history entry, jumpTo(k) leaves history as it
\* is, sets step to k and makes X the next player exactly when k is even.
C6_JumpChangesOnlyStepAndFlag ==
    \A k \in 0..(Len(history) - 1) :
        /\ jumpTo(State, k).history = history
        /\ jumpTo(State, k).step = k
        /\ jumpTo(State, k).xIsNext <=> (k % 2 = 0)

\* C6 witness: a jump back to entry 1 of a history of four or more entries
\* has left all of them stored, with O the next player.
C6_Witness ==
    /\ Len(history) >= 4
    /\ step = 1
    /\ ~xIsNext

C8_OutOfRangeJumpChangesNothing ==
    [][\A move \in JumpArgs :
        (~(move \in 0..(Len(history) - 1)) /\ setState(jumpTo(State, move)))
            => UNCHANGED <<history, step, xIsNext>>]_vars

\* C9 as stated: after a click on the history button of entry m, jumpTo(m) has
\* run and step is m; after a click on cell i, handleClick(i) has run, so that
\* cell i is marked unless the board was already won.
C9_ClicksReachTheirHandlers ==
    /\ event.target = "history" => step = event.arg
    /\ event.target = "square" =>
            (currentBoard(State)[event.arg] # Empty \/ winner(State) # Null)

\* The eight lines in the order the claim lists them.
C10_Lines == << <<0, 1, 2>>, <<3, 4, 5>>, <<6, 7, 8>>,
                <<0, 3, 6>>, <<1, 4, 7>>, <<2, 5, 8>>,
                <<0, 4, 8>>, <<2, 4, 6>> >>

\* The lines of C10_Lines whose three cells on board b are equal and not Empty.
C10_Complete(b) ==
    { j \in DOMAIN C10_Lines :
        /\ b[C10_Lines[j][1]] \in {"X", "O"}
        /\ b[C10_Lines[j][2]] = b[C10_Lines[j][1]]
        /\ b[C10_Lines[j][3]] = b[C10_Lines[j][1]] }

\* C10: on every board, calculateWinner returns the mark of the first line in
\* the listed order whose three cells are equal and not Empty, and null
\* exactly when there is no such line; the three boards of the claim give X,
\* null and X.
C10_WinnerIsFirstCompleteLine ==
    (call.fn = "calculateWinner" /\ call.ret # "pending") =>
        LET b == call.arg
            done == C10_Complete(b)
        IN /\ done = {} <=> call.ret = Null
           /\ done # {} =>
                LET first == CHOOSE j \in done : \A k \in done : j <= k
                IN call.ret = b[C10_Lines[first][1]]
           /\ b = [c \in Cells |-> IF c \in {0, 1, 2} THEN "X" ELSE Empty] => call.ret = "X"
           /\ b = [c \in Cells |-> IF c \in {0, 2, 4, 7} THEN "X" ELSE "O"] => call.ret = Null
           /\ b = [c \in Cells |-> IF c \in {0, 4, 8} THEN "X" ELSE Empty] => call.ret = "X"

\* C10 witness: a board with two complete lines of different marks, O on
\* (0,1,2) and X on (3,4,5), for which the first in order, O, was returned.
C10_Witness ==
    /\ call.fn = "calculateWinner"
    /\ call.ret = "O"
    /\ \A c \in {0, 1, 2} : call.arg[c] = "O"
    /\ \A c \in {3, 4, 5} : call.arg[c] = "X"

\* The cells of the scenario of C11, the marks it places and the coordinates
\* it names, in order.
C11_Moves == <<0, 4, 1, 3, 2>>

C11_Marks == <<"X", "O", "X", "O", "X">>

C11_Coords == << <<1, 1>>, <<2, 2>>, <<2, 1>>, <<1, 2>>, <<3, 1>> >>

\* The board the scenario names after its first n moves.
C11_Board(n) ==
    [c \in Cells |->
        IF \E j \in 1..n : C11_Moves[j] = c
        THEN C11_Marks[CHOOSE j \in 1..n : C11_Moves[j] = c]
        ELSE Empty]

\* The history the scenario names after its first n moves.
C11_History(n) ==
    [m \in 1..(n + 1) |->
        [squares |-> C11_Board(m - 1),
         coords |-> IF m = 1 THEN Undefined ELSE C11_Coords[m - 1]]]

\* C11: along the scenario handleClick(0), (4), (1), (3), (2) from the initial
\* state, each call adds the entry the scenario names (X, O, X, O, X on cells
\* 0, 4, 1, 3, 2 with coordinates (1,1), (2,2), (2,1), (1,2), (3,1)); at its
\* end the winner is X, the status is "Winner is X!" and handleClick(5)
\* changes nothing.
C11_EndToEndScenario ==
    LET n == step IN
    (n <= 5 /\ Len(history) = n + 1 /\ history = C11_History(n)) =>
        /\ n < 5 =>
            handleClick(State, C11_Moves[n + 1]) =
                [history |-> C11_History(n + 1), step |-> n + 1, xIsNext |-> (n % 2 = 1)]
        /\ n = 5 =>
            /\ winner(State) = "X"
            /\ status(State) = <<"Winner is ", "X", "!">>
            /\ handleClick(State, 5) = State

\* C11 witness: the five moves of the scenario have been played.
C11_Witness ==
    /\ step = 5
    /\ history = C11_History(5)
    /\ xIsNext = FALSE
    /\ status(State) = <<"Winner is ", "X", "!">>

\* C12: for every cell number i in 0..8, calculateCoordinate(i) is the pair
\* (i % 3 + 1, i div 3 + 1), both in 1..3; 0, 4, 8 and 2 give (1,1), (2,2),
\* (3,3) and (3,1).
C12_CoordinateIsColumnRow ==
    (call.fn = "calculateCoordinate" /\ call.done /\ call.arg \in 0..8) =>
        /\ call.ret = <<(call.arg % 3) + 1, (call.arg \div 3) + 1>>
        /\ call.ret[1] \in 1..3
        /\ call.ret[2] \in 1..3
        /\ call.arg = 0 => call.ret = <<1, 1>>
        /\ call.arg = 4 => call.ret = <<2, 2>>
        /\ call.arg = 8 => call.ret = <<3, 3>>
        /\ call.arg = 2 => call.ret = <<3, 1>>

\* C12 witness: the call on cell 2 has returned column 3, row 1.
C12_Witness ==
    /\ call.fn = "calculateCoordinate"
    /\ call.done
    /\ call.arg = 2
    /\ call.ret = <<3, 1>>

\* C13: in every state reached by handleClick and in-range jumpTo calls, step
\* is the index of an entry of history, 0 <= step < history.length, so that
\* render finds history[step].
C13_StepPointsIntoHistory ==
    /\ 0 <= step
    /\ step < Len(history)
    /\ (step + 1) \in DOMAIN history

\* C13 witness: a jump back has left step on entry 1 of three or more.
C13_Witness ==
    /\ Len(history) >= 3
    /\ step = 1

\* C14: in every reachable state history is not empty, the board of its entry
\* 0 is all Empty and entry 0 has no coordinate.
C14_FirstEntryIsEmptyBoard ==
    /\ Len(history) >= 1
    /\ \A c \in Cells : history[1].squares[c] = Empty
    /\ history[1].coords = Undefined

\* C14 witness: two or more moves have been played, the current board holds
\* a mark, and entry 0 still holds the Empty board.
C14_Witness ==
    /\ Len(history) >= 3
    /\ step >= 1
    /\ \E c \in Cells : currentBoard(State)[c] # Empty
    /\ history[1].squares = EmptySquares

\* The cells in which two boards differ.
C15_Diff(before, after) == { c \in Cells : before[c] # after[c] }

\* C15: in every reachable state, for every m with 1 <= m < history.length,
\* the boards of entries m - 1 and m differ in exactly one cell; that cell is
\* Empty in entry m - 1 and holds X in entry m if m - 1 is even, O if odd.
C15_OneNewMarkPerEntry ==
    \A m \in 1..(Len(history) - 1) :
        LET before == history[m].squares
            after == history[m + 1].squares
            diff == C15_Diff(before, after)
        IN /\ Cardinality(diff) = 1
           /\ \A c \in diff :
                /\ before[c] = Empty
                /\ after[c] = IF (m - 1) % 2 = 0 THEN "X" ELSE "O"

\* C15 witness: a history of five moves, three by X and two by O.
C15_Witness ==
    /\ Len(history) = 6
    /\ Cardinality({ c \in Cells : history[6].squares[c] = "X" }) = 3
    /\ Cardinality({ c \in Cells : history[6].squares[c] = "O" }) = 2

\* C16: a handleClick(i) that changes the state at step = s leaves entries
\* 0..s of history as they were, boards and coordinates; entry s + 1 is the
\* only entry of the new history that holds the new mark in cell i.
C16_MoveKeepsOlderEntries ==
    \A i \in Cells :
        LET after == handleClick(State, i) IN
        after # State =>
            /\ Len(after.history) = step + 2
            /\ \A m \in 1..(step + 1) :
                /\ after.history[m] = history[m]
                /\ after.history[m].squares[i] = Empty
            /\ after.history[step + 2].squares[i] = IF step % 2 = 0 THEN "X" ELSE "O"

\* C16 witness: step is on an entry after entry 0 and before the last one,
\* on a board where a move can be played and leaves the older entries alone.
C16_Witness ==
    /\ step >= 1
    /\ step < Len(history) - 1
    /\ \E i \in Cells :
        /\ moveApplies(State, i)
        /\ handleClick(State, i).history[step + 1] = history[step + 1]

\* C17: in every reachable state, for every m with 1 <= m < history.length,
\* entry m has a coordinate, and it is calculateCoordinate of the one cell in
\* which its board differs from the board of entry m - 1; so the description
\* of entry m reads "Go to move #m at (col, row)" for that cell, without a
\* TypeError, and the description of entry 0 reads "Go to start".
C17_CoordinateOfEachMove ==
    /\ description(State, 0) = <<"Go to start">>
    /\ \A m \in 1..(Len(history) - 1) :
        \A c \in C15_Diff(history[m].squares, history[m + 1].squares) :
            /\ history[m + 1].coords # Undefined
            /\ history[m + 1].coords = calculateCoordinate(c)
            /\ description(State, m) =
                 <<"Go to move #", m, " at (", (c % 3) + 1, ", ", (c \div 3) + 1, ")">>

\* C17 witness: the second move was played on the centre cell, and its
\* description names move 2 at (2, 2).
C17_Witness ==
    /\ Len(history) >= 3
    /\ history[2].squares[4] = Empty
    /\ history[3].squares[4] = "O"
    /\ description(State, 2) = <<"Go to move #", 2, " at (", 2, ", ", 2, ")">>

C19_Count(board, mark) == Cardinality({ c \in Cells : board[c] = mark })

====
